---- MODULE Spec2Model ----
(***************************************************************************)
(* A model of the duplicate-file scanner of dupe-finder-gui                *)
(* (src/src/scanner.rs): the directory walk with its hidden-entry and      *)
(* minimum-size filters, the size index, the per-bucket parallel hashing,  *)
(* the grouping by digest and the progress events.                         *)
(*                                                                         *)
(* The file system is the environment: it is drawn in Init and does not    *)
(* change while a scan runs.  A file's size is the length of its content.  *)
(***************************************************************************)
EXTENDS Integers, Sequences, FiniteSets, TLC

\* ------------------------------------------------------------------------
\* Bounds of the model
\* ------------------------------------------------------------------------
NumFiles == 3      \* regular files in the tree
MaxOdd == 1        \* attributes of the tree that deviate from "plain readable file in the root"
MaxMinSize == 2    \* largest min_file_size tried
MaxTime == 2       \* distinct modification times of the files handed to a strategy
MaxGroupLen == 3   \* files of a group handed to a strategy
MaxDepth == 3      \* components of a path handed to is_critical_file
NumListed == 3     \* files that a scan started from the app can list

Files == 1..NumFiles

\* Option<T>
None == <<>>
Some(v) == <<v>>

\* File contents: byte strings.  One empty, two of the same length that
\* share their first byte.
Contents == {<<>>, <<1, 1>>, <<1, 2>>}

Places == {"root", "sub", "hid", "locked"}
Fails == {"ok", "meta", "hash"}
Roots == {"ok", "hidden", "missing"}

\* ------------------------------------------------------------------------
\* Configuration
\* ------------------------------------------------------------------------
DefaultConfig ==
    [buffer_size |-> 65536, include_hidden |-> FALSE,
     min_file_size |-> 1, max_threads |-> None]

BufferSizes == {1, DefaultConfig.buffer_size}

\* the default configuration and the configurations that differ from it in
\* one option
Configs ==
    {c \in [buffer_size : BufferSizes, include_hidden : BOOLEAN,
            min_file_size : 0..MaxMinSize, max_threads : {None}] :
        Cardinality({o \in {"buffer_size", "include_hidden", "min_file_size"} :
                        c[o] # DefaultConfig[o]}) <= 1}

VARIABLES
    fs,                   \* the directory tree on disk
    config,               \* ScanConfig handed to scan_directory
    pc,                   \* "Idle", "Discovering", "Hashing", "Done", "Failed"
    files_by_size,        \* size -> sequence of (path, modified, is_critical)
    total_files,
    potential_duplicates, \* sequence of (size, paths_with_time)
    bucket,               \* the bucket of the current iteration of the outer loop
    arrival,              \* hash tasks of the bucket, in the order they completed
    hash_results,         \* the collected Vec<(path, Result)>
    zipped,               \* number of zip elements the fold loop has consumed
    files_by_hash,        \* digest -> sequence of (path, modified, is_critical)
    processed_count,
    duplicates,
    events,               \* what progress_callback has received, in order
    result,               \* the value scan_directory returned
    call,                 \* a call of a pure function: its name and its argument
    ret,                  \* what the call returned
    state,                \* DupeFinderApp.state, the AppState
    scan_progress,        \* the slot shared by the worker thread and the UI
    result_receiver,      \* Some receiver while a scan is awaited
    channel,              \* what the worker has sent and update has not received
    worker,               \* the worker thread: where it is and what its scan returned
    disk,                 \* the paths of the files that exist
    op                    \* the last operation of the app and what remove_file did in it

scanVars == <<fs, config, pc, files_by_size, total_files, potential_duplicates,
              bucket, arrival, hash_results, zipped, files_by_hash,
              processed_count, duplicates, events, result>>

pureVars == <<call, ret>>

appVars == <<state, scan_progress, result_receiver, channel, worker, disk, op>>

vars == <<scanVars, pureVars, appVars>>

\* ------------------------------------------------------------------------
\* The tree: names, paths and what the raw directory walk yields
\* ------------------------------------------------------------------------
Digits == <<"1", "2", "3", "4", "5", "6", "7", "8", "9">>

\* a byte that is valid in an OsStr and not in UTF-8
Invalid == "\\xFF"

\* names are sequences of characters; a raw name is a dot, then a byte that
\* is not valid UTF-8
FileName(f, dot, raw) ==
    (IF dot \/ raw THEN <<".">> ELSE <<>>)
        \o (IF raw THEN <<Invalid>> ELSE <<>>) \o <<"f", Digits[f]>>

DirName(place) ==
    CASE place = "sub" -> <<"s", "u", "b">>
      [] place = "hid" -> <<".", "s", "s", "h">>
      [] place = "locked" -> <<"l", "k">>

RootPath == IF fs.root = "hidden" THEN << <<".", "r">> >> ELSE << <<"r">> >>

DirPath(place) == IF place = "root" THEN RootPath ELSE Append(RootPath, DirName(place))

PathOf(f) == Append(DirPath(fs.files[f].place), FileName(f, fs.files[f].dot, fs.files[f].raw))

FileAt(path) == CHOOSE f \in Files : PathOf(f) = path

FileSeq == [i \in 1..NumFiles |-> i]

FilesIn(place) == SelectSeq(FileSeq, LAMBDA f : fs.files[f].place = place)

FileEntries(place) ==
    [k \in 1..Len(FilesIn(place)) |->
        [kind |-> "file", depth |-> Len(DirPath(place)), path |-> PathOf(FilesIn(place)[k])]]

\* a subdirectory exists when some file lies in it; a directory that cannot
\* be read yields itself and then one error
DirEntries(place) ==
    IF Len(FilesIn(place)) = 0 THEN <<>>
    ELSE <<[kind |-> "dir", depth |-> 1, path |-> DirPath(place)]>>
         \o (IF place = "locked"
             THEN <<[kind |-> "err", depth |-> 2, path |-> DirPath(place)]>>
             ELSE FileEntries(place))

\* WalkDir::new(dir).into_iter(): the entries in pre-order
WalkDir ==
    IF fs.root = "missing"
    THEN <<[kind |-> "err", depth |-> 0, path |-> RootPath]>>
    ELSE <<[kind |-> "dir", depth |-> 0, path |-> RootPath]>>
         \o FileEntries("root") \o DirEntries("sub")
         \o DirEntries("hid") \o DirEntries("locked")


\* ------------------------------------------------------------------------
\* The walker: filter_entry and filter_map(ok)
\* ------------------------------------------------------------------------
\* entry.file_name(): the last component of the entry's path
file_name(path) == path[Len(path)]

\* OsStr::to_str: the name as a str when it is valid Unicode
to_str(name) ==
    IF \E i \in DOMAIN name : name[i] = Invalid THEN None ELSE Some(name)

\* str::starts_with('.')
starts_with_dot(s) == Len(s) > 0 /\ s[1] = "."

\* .map(|s| s.starts_with('.')).unwrap_or(false)
is_hidden(entry) ==
    LET s == to_str(file_name(entry.path))
    IN IF s = None THEN FALSE ELSE starts_with_dot(s[1])

\* the predicate handed to filter_entry
KeepEntry(e, cfg) == cfg.include_hidden \/ ~is_hidden(e)

\* filter_entry: an entry that fails the predicate is not yielded and, when
\* it is a directory, nothing below it is visited; errors pass through.
\* pruned is the depth of the directory being skipped, or -1.
RECURSIVE FilterEntry(_, _, _)
FilterEntry(raw, pruned, cfg) ==
    IF raw = <<>> THEN <<>>
    ELSE LET e == Head(raw)
             rest == Tail(raw)
         IN IF pruned >= 0 /\ e.depth > pruned THEN FilterEntry(rest, pruned, cfg)
            ELSE IF e.kind = "err" THEN <<e>> \o FilterEntry(rest, -1, cfg)
            ELSE IF ~KeepEntry(e, cfg)
                 THEN FilterEntry(rest, IF e.kind = "dir" THEN e.depth ELSE -1, cfg)
            ELSE <<e>> \o FilterEntry(rest, -1, cfg)

\* walker.filter_map(|e| e.ok())
FilterMapOk(entries) == SelectSeq(entries, LAMBDA e : e.kind # "err")

Walker(cfg) == FilterMapOk(FilterEntry(WalkDir, -1, cfg))

\* ------------------------------------------------------------------------
\* Critical-file classification
\* ------------------------------------------------------------------------
critical_files ==
    { <<".", "b", "a", "s", "h", "r", "c">>,
      <<".", "b", "a", "s", "h", "_", "p", "r", "o", "f", "i", "l", "e">>,
      <<".", "b", "a", "s", "h", "_", "l", "o", "g", "o", "u", "t">>,
      <<".", "p", "r", "o", "f", "i", "l", "e">>,
      <<".", "z", "s", "h", "r", "c">>,
      <<".", "z", "p", "r", "o", "f", "i", "l", "e">>,
      <<".", "v", "i", "m", "r", "c">>,
      <<".", "g", "v", "i", "m", "r", "c">>,
      <<".", "e", "m", "a", "c", "s">>,
      <<".", "e", "m", "a", "c", "s", ".", "d">>,
      <<".", "c", "o", "n", "f", "i", "g">>,
      <<".", "l", "o", "c", "a", "l">>,
      <<".", "c", "a", "c", "h", "e">>,
      <<".", "s", "s", "h">>,
      <<".", "g", "n", "u", "p", "g">>,
      <<".", "a", "w", "s">>,
      <<".", "d", "o", "c", "k", "e", "r">>,
      <<".", "k", "u", "b", "e">>,
      <<".", "n", "p", "m">>,
      <<".", "p", "i", "p">>,
      <<".", "c", "o", "n", "d", "a">>,
      <<".", "e", "n", "v">>,
      <<".", "g", "i", "t", "c", "o", "n", "f", "i", "g">>,
      <<".", "h", "g", "r", "c">>,
      <<".", "s", "u", "b", "v", "e", "r", "s", "i", "o", "n">>,
      <<".", "t", "m", "u", "x", ".", "c", "o", "n", "f">>,
      <<".", "s", "c", "r", "e", "e", "n", "r", "c">>,
      <<".", "X", "a", "u", "t", "h", "o", "r", "i", "t", "y">>,
      <<".", "x", "i", "n", "i", "t", "r", "c">>,
      <<".", "x", "s", "e", "s", "s", "i", "o", "n">>,
      <<".", "x", "p", "r", "o", "f", "i", "l", "e">>,
      <<".", "x", "r", "c">>,
      <<".", "X", "r", "e", "s", "o", "u", "r", "c", "e", "s">>,
      <<".", "g", "t", "k", "r", "c">>,
      <<".", "x", "m", "o", "d", "m", "a", "p">>,
      <<".", "i", "n", "p", "u", "t", "r", "c">>,
      <<".", "n", "e", "t", "r", "c">>,
      <<".", "l", "e", "s", "s", "h", "s", "t">>,
      <<".", "p", "y", "t", "h", "o", "n", "_", "h", "i", "s", "t", "o", "r", "y">>,
      <<".", "m", "y", "s", "q", "l", "_", "h", "i", "s", "t", "o", "r", "y">>,
      <<".", "p", "s", "q", "l", "_", "h", "i", "s", "t", "o", "r", "y">>,
      <<".", "s", "q", "l", "i", "t", "e", "_", "h", "i", "s", "t", "o", "r", "y">>,
      <<".", "r", "v", "m">>,
      <<".", "r", "b", "e", "n", "v">>,
      <<".", "c", "a", "r", "g", "o">>,
      <<".", "r", "u", "s", "t", "u", "p">>,
      <<".", "g", "r", "a", "d", "l", "e">>,
      <<".", "m", "2">>,
      <<".", "i", "v", "y", "2">>,
      <<".", "s", "b", "t">>,
      <<".", "c", "o", "u", "r", "s", "i", "e", "r">>,
      <<".", "l", "e", "i", "n">>,
      <<".", "b", "o", "o", "t">>,
      <<".", "c", "l", "o", "j", "u", "r", "e">>,
      <<".", "c", "i", "d", "e", "r">>,
      <<".", "n", "r", "e", "p", "l", "-", "h", "i", "s", "t", "o", "r", "y">>,
      <<".", "c", "a", "l", "i", "b", "r", "e", "d", "b">>,
      <<".", "t", "h", "u", "n", "d", "e", "r", "b", "i", "r", "d">>,
      <<".", "m", "o", "z", "i", "l", "l", "a">>,
      <<".", "c", "h", "r", "o", "m", "i", "u", "m">>,
      <<".", "g", "o", "o", "g", "l", "e", "-", "c", "h", "r", "o", "m", "e">>,
      <<".", "o", "p", "e", "r", "a">>,
      <<".", "v", "l", "c">>,
      <<".", "a", "u", "d", "a", "c", "i", "t", "y", "-", "d", "a", "t", "a">>,
      <<".", "g", "i", "m", "p">>,
      <<".", "i", "n", "k", "s", "c", "a", "p", "e">>,
      <<".", "b", "l", "e", "n", "d", "e", "r">>,
      <<".", "k", "d", "e">>,
      <<".", "g", "n", "o", "m", "e">>,
      <<".", "c", "i", "n", "n", "a", "m", "o", "n">>,
      <<".", "m", "a", "t", "e">>,
      <<".", "x", "f", "c", "e", "4">>,
      <<".", "l", "x", "d", "e">>,
      <<".", "f", "l", "u", "x", "b", "o", "x">>,
      <<".", "i", "3">>,
      <<".", "s", "w", "a", "y">>,
      <<".", "b", "s", "p", "w", "m">>,
      <<".", "d", "w", "m">>,
      <<".", "x", "m", "o", "n", "a", "d">>,
      <<".", "h", "e", "r", "b", "s", "t", "l", "u", "f", "t", "w", "m">>,
      <<".", "c", "o", "n", "f", "i", "g", "/", "n", "v", "i", "m">>,
      <<".", "c", "o", "n", "f", "i", "g", "/", "v", "i", "m">>,
      <<".", "c", "o", "n", "f", "i", "g", "/", "e", "m", "a", "c", "s">>,
      <<".", "c", "o", "n", "f", "i", "g", "/", "f", "i", "s", "h">>,
      <<".", "c", "o", "n", "f", "i", "g", "/", "z", "s", "h">>,
      <<".", "c", "o", "n", "f", "i", "g", "/", "b", "a", "s", "h">>,
      <<".", "c", "o", "n", "f", "i", "g", "/", "g", "i", "t">>,
      <<".", "c", "o", "n", "f", "i", "g", "/", "s", "s", "h">>,
      <<".", "c", "o", "n", "f", "i", "g", "/", "g", "t", "k", "-", "3", ".", "0">>,
      <<".", "c", "o", "n", "f", "i", "g", "/", "g", "t", "k", "-", "4", ".", "0">>,
      <<".", "c", "o", "n", "f", "i", "g", "/", "k", "d", "e", "g", "l", "o", "b", "a", "l", "s">>,
      <<".", "c", "o", "n", "f", "i", "g", "/", "p", "l", "a", "s", "m", "a">>,
      <<".", "c", "o", "n", "f", "i", "g", "/", "x", "f", "c", "e", "4">>,
      <<".", "c", "o", "n", "f", "i", "g", "/", "i", "3">>,
      <<".", "c", "o", "n", "f", "i", "g", "/", "s", "w", "a", "y">> }

\* path.ancestors(): the path itself and every prefix of it
ancestors(path) == {SubSeq(path, 1, n) : n \in 1..Len(path)}

\* path.file_name().and_then(|n| n.to_str())
file_name_str(path) == IF Len(path) = 0 THEN None ELSE to_str(file_name(path))

is_critical_file(path) ==
    LET filename == file_name_str(path)
    IN IF filename # None
       THEN \/ filename[1] \in critical_files
            \/ \E a \in ancestors(path) :
                  LET ancestor_name == file_name_str(a)
                  IN ancestor_name # None /\ ancestor_name[1] \in critical_files
       ELSE FALSE

\* ------------------------------------------------------------------------
\* Discovery
\* ------------------------------------------------------------------------
get_file_metadata(path) ==
    LET node == fs.files[FileAt(path)]
    IN IF node.fail = "meta"
       THEN [ok |-> FALSE, size |-> 0, modified |-> None]
       ELSE [ok |-> TRUE, size |-> Len(node.content), modified |-> node.mtime]

\* map.entry(k).or_default().push(x)
Push(map, k, x) ==
    IF k \in DOMAIN map THEN [map EXCEPT ![k] = Append(@, x)]
    ELSE map @@ (k :> <<x>>)

\* variant: a file of exactly min_file_size is excluded
PassesMinSizeStrict(size, cfg) == size > cfg.min_file_size

PassesMinSize(size, cfg) == size >= cfg.min_file_size

\* the body of the discovery loop for one entry
DiscoverEntry(entry, cfg, acc) ==
    IF entry.kind # "file" THEN acc
    ELSE LET md == get_file_metadata(entry.path)
         IN IF ~md.ok THEN acc
            ELSE IF PassesMinSize(md.size, cfg)
                 THEN [files_by_size |->
                          Push(acc.files_by_size, md.size,
                               [path |-> entry.path, modified |-> md.modified,
                                is_critical |-> is_critical_file(entry.path)]),
                       total_files |-> acc.total_files + 1]
                 ELSE acc

\* variant: the loop ends at the first file whose metadata cannot be read
RECURSIVE DiscoverStopAtError(_, _, _)
DiscoverStopAtError(entries, cfg, acc) ==
    IF entries = <<>> THEN acc
    ELSE IF Head(entries).kind = "file" /\ ~get_file_metadata(Head(entries).path).ok
         THEN acc
    ELSE DiscoverStopAtError(Tail(entries), cfg, DiscoverEntry(Head(entries), cfg, acc))

\* the discovery loop over the entries the walker yields
RECURSIVE Discover(_, _, _)
Discover(entries, cfg, acc) ==
    IF entries = <<>> THEN acc
    ELSE Discover(Tail(entries), cfg, DiscoverEntry(Head(entries), cfg, acc))

\* ------------------------------------------------------------------------
\* Hashing
\* ------------------------------------------------------------------------
\* SHA-256 followed by hex::encode, as an injective encoding of the bytes fed
\* to the hasher (bytes are 1 or 2: a number in base 3 without the digit 0)
RECURSIVE Sha256Hex(_)
Sha256Hex(bytes) ==
    IF bytes = <<>> THEN 0
    ELSE 3 * Sha256Hex(SubSeq(bytes, 1, Len(bytes) - 1)) + bytes[Len(bytes)]

Min(a, b) == IF a < b THEN a ELSE b

\* variant: only the first buffer is hashed
ReadLoopFirstChunk(unread, buffer_size, hasher) ==
    hasher \o SubSeq(unread, 1, Min(buffer_size, Len(unread)))

\* the read loop of hash_file: chunks of at most buffer_size bytes are fed to
\* the hasher until a read returns 0
RECURSIVE ReadLoop(_, _, _)
ReadLoop(unread, buffer_size, hasher) ==
    LET count == Min(buffer_size, Len(unread))
    IN IF count = 0 THEN hasher
       ELSE ReadLoop(SubSeq(unread, count + 1, Len(unread)), buffer_size,
                     hasher \o SubSeq(unread, 1, count))

hash_file(path, cfg) ==
    LET node == fs.files[FileAt(path)]
    IN IF node.fail = "hash"
       THEN [ok |-> FALSE, hash |-> 0]
       ELSE [ok |-> TRUE, hash |-> Sha256Hex(ReadLoop(node.content, cfg.buffer_size, <<>>))]

\* variant: the results are taken in the order the tasks completed
CollectInArrivalOrder(paths, done) ==
    [k \in 1..Len(paths) |-> [path |-> paths[k], result |-> done[k].result]]

\* par_iter().map(..).collect(): the results in the order of paths, whatever
\* the order in which the tasks completed
Collect(paths, done) ==
    [k \in 1..Len(paths) |->
        LET t == CHOOSE t \in 1..Len(done) : done[t].index = k
        IN [path |-> paths[k], result |-> done[t].result]]

\* variant: every hashed file of the bucket goes under one key
FoldIntoBySize(map, hr, rec) ==
    IF hr.result.ok
    THEN Push(map, 0,
              [path |-> hr.path, modified |-> rec.modified, is_critical |-> rec.is_critical])
    ELSE map

\* variant: the results are zipped with the records in reverse order
ZipReversed(results, records) ==
    [k \in 1..Min(Len(results), Len(records)) |->
        [hr |-> results[k], rec |-> records[Len(records) + 1 - k]]]

\* hash_results.into_iter().zip(paths_with_time)
Zip(results, records) ==
    [k \in 1..Min(Len(results), Len(records)) |->
        [hr |-> results[k], rec |-> records[k]]]

\* the fold of one zip element into files_by_hash (the if let Ok of the loop)
FoldInto(map, hr, rec) ==
    IF hr.result.ok
    THEN Push(map, hr.result.hash,
              [path |-> hr.path, modified |-> rec.modified, is_critical |-> rec.is_critical])
    ELSE map

\* variant: a bucket needs more than two files to be hashed
IsCandidateMoreThanTwo(paths) == Len(paths) > 2

IsCandidate(paths) == Len(paths) > 1

\* variant: every digest subgroup is emitted
IsDuplicateGroupNonEmpty(paths_with_time) == Len(paths_with_time) >= 1

IsDuplicateGroup(paths_with_time) == Len(paths_with_time) > 1

\* variant: every member of a group is flagged when one of them is
MakeGroupAnyCritical(size, paths_with_time) ==
    [k \in 1..Len(paths_with_time) |->
        [path |-> paths_with_time[k].path, size |-> size,
         modified_time |-> paths_with_time[k].modified,
         is_critical |-> \E j \in 1..Len(paths_with_time) : paths_with_time[j].is_critical]]

\* duplicates.push(files.into_iter().map(FileInfo { .. }).collect())
MakeGroup(size, paths_with_time) ==
    [k \in 1..Len(paths_with_time) |->
        [path |-> paths_with_time[k].path, size |-> size,
         modified_time |-> paths_with_time[k].modified,
         is_critical |-> paths_with_time[k].is_critical]]

\* ------------------------------------------------------------------------
\* The selection strategies
\* ------------------------------------------------------------------------
\* variant: a missing time is greater than every present one
OptionGreaterNoneLargest(a, b) ==
    \/ a = None /\ b # None
    \/ a # None /\ b # None /\ a[1] > b[1]

\* the order of Option<SystemTime>: None is smaller than every Some
OptionGreater(a, b) ==
    \/ a # None /\ b = None
    \/ a # None /\ b # None /\ a[1] > b[1]

\* the keys |(_, f)| f.modified_time of the enumerated files
modified_times(files) == [k \in 1..Len(files) |-> files[k].modified_time]

\* the fold of max_by_key: the earlier element is kept only when it is
\* greater than the later one
RECURSIVE MaxFold(_, _, _)
MaxFold(keys, best, i) ==
    IF i > Len(keys) THEN best
    ELSE MaxFold(keys, IF OptionGreater(keys[best], keys[i]) THEN best ELSE i, i + 1)

\* the fold of min_by_key: the later element is taken only when the earlier
\* one is greater
RECURSIVE MinFold(_, _, _)
MinFold(keys, best, i) ==
    IF i > Len(keys) THEN best
    ELSE MinFold(keys, IF OptionGreater(keys[best], keys[i]) THEN i ELSE best, i + 1)

\* variant: of several maximal elements the first is returned
max_by_keyFirst(keys) ==
    IF Len(keys) = 0 THEN None
    ELSE Some(CHOOSE i \in 1..Len(keys) :
                  /\ \A j \in 1..Len(keys) : ~OptionGreater(keys[j], keys[i])
                  /\ \A j \in 1..(i - 1) : OptionGreater(keys[i], keys[j]))

\* Iterator::max_by_key on the enumerated files: the index of the maximum
max_by_key(keys) == IF Len(keys) = 0 THEN None ELSE Some(MaxFold(keys, 1, 2))

\* variant: the minimum of the present times, when there is one
min_by_keyOfPresent(keys) ==
    IF Len(keys) = 0 THEN None
    ELSE LET present == {i \in 1..Len(keys) : keys[i] # None}
             among == IF present = {} THEN 1..Len(keys) ELSE present
         IN Some(CHOOSE i \in among :
                     /\ \A j \in among : ~OptionGreater(keys[i], keys[j])
                     /\ \A j \in among : j < i => OptionGreater(keys[j], keys[i]))

\* Iterator::min_by_key on the enumerated files: the index of the minimum
min_by_key(keys) == IF Len(keys) = 0 THEN None ELSE Some(MinFold(keys, 1, 2))

\* vec![false; n] with selected[idx] = true when there is an index
Marked(n, idx) == [k \in 1..n |-> idx # None /\ idx[1] = k]

KeepNewestStrategy(files) == Marked(Len(files), max_by_key(modified_times(files)))

KeepOldestStrategy(files) == Marked(Len(files), min_by_key(modified_times(files)))

KeepAllStrategy(files) == [k \in 1..Len(files) |-> TRUE]

KeepNoneStrategy(files) == [k \in 1..Len(files) |-> FALSE]

\* the orders in which a HashMap may be iterated
Orders(S) == {o \in [1..Cardinality(S) -> S] : \A i, j \in DOMAIN o : i # j => o[i] # o[j]}

\* the lossy conversion of a name: what is not valid UTF-8 becomes U+FFFD
lossy(name) == [i \in DOMAIN name |-> IF name[i] = Invalid THEN "\\uFFFD" ELSE name[i]]

\* path.display().to_string(): the components joined by "/"
RECURSIVE display(_)
display(path) ==
    IF Len(path) = 0 THEN <<>>
    ELSE IF Len(path) = 1 THEN lossy(path[1])
    ELSE display(SubSeq(path, 1, Len(path) - 1)) \o <<"/">> \o lossy(path[Len(path)])

ScanProgress(current, total, current_file, phase) ==
    [current |-> current, total |-> total, current_file |-> current_file, phase |-> phase]

NoBucket == [active |-> FALSE, size |-> 0, paths_with_time |-> <<>>]
NoResult == [kind |-> "None", groups |-> <<>>]
EmptyMap == <<>>


\* ------------------------------------------------------------------------
\* The trees and configurations a scan starts from
\* ------------------------------------------------------------------------
\* the attributes by which a tree deviates from plain readable files in a
\* visible, existing root
Deviations ==
    {<<f, "place", p>> : f \in Files, p \in Places \ {"root"}}
    \cup {<<f, "dot", TRUE>> : f \in Files}
    \cup {<<f, "raw", TRUE>> : f \in Files}
    \cup {<<f, "fail", x>> : f \in Files, x \in Fails \ {"ok"}}
    \cup {<<0, "root", r>> : r \in Roots \ {"ok"}}

\* the sets of at most k deviations, one value for an attribute
RECURSIVE DeviationSets(_)
DeviationSets(k) ==
    IF k = 0 THEN {{}}
    ELSE LET S == DeviationSets(k - 1)
         IN S \cup {s \cup {d} : <<s, d>> \in
                       {x \in S \X Deviations :
                           \A e \in x[1] : ~(e[1] = x[2][1] /\ e[2] = x[2][2])}}

Attribute(D, f, a, default) ==
    IF \E d \in D : d[1] = f /\ d[2] = a
    THEN (CHOOSE d \in D : d[1] = f /\ d[2] = a)[3]
    ELSE default

TreeOf(D, contents) ==
    [root |-> Attribute(D, 0, "root", "ok"),
     files |-> [f \in Files |->
        [place |-> Attribute(D, f, "place", "root"),
         dot |-> Attribute(D, f, "dot", FALSE),
         raw |-> Attribute(D, f, "raw", FALSE),
         fail |-> Attribute(D, f, "fail", "ok"),
         content |-> contents[f],
         mtime |-> Some(f)]]]

\* the content of a file that cannot be reached, or whose metadata cannot be
\* read, plays no part: it is left empty. Which of two contents of one size
\* is which plays no part either: the first file that is not empty has the
\* first of them.
Canonical(t) ==
    /\ \A f \in Files :
          (t.root = "missing" \/ t.files[f].place = "locked" \/ t.files[f].fail = "meta")
              => t.files[f].content = <<>>
    /\ \A f \in Files :
          t.files[f].content = <<1, 2>> =>
              \E g \in 1..(f - 1) : t.files[g].content = <<1, 1>>

Trees ==
    {t \in {TreeOf(D, c) : D \in DeviationSets(MaxOdd), c \in [Files -> Contents]} :
        Canonical(t)}

\* no pure function has been called
NoCall == [fn |-> "None", arg |-> <<>>]

NoRet == [val |-> <<>>]

PureIdle == call = NoCall /\ ret = NoRet

\* no scan has been started
ScanIdle ==
    /\ pc = "Idle"
    /\ files_by_size = EmptyMap
    /\ total_files = 0
    /\ potential_duplicates = <<>>
    /\ bucket = NoBucket
    /\ arrival = <<>>
    /\ hash_results = <<>>
    /\ zipped = 0
    /\ files_by_hash = EmptyMap
    /\ processed_count = 0
    /\ duplicates = <<>>
    /\ events = <<>>
    /\ result = NoResult

\* the status messages, by the format string that makes them
Message(kind, count, groups, critical) ==
    [kind |-> kind, count |-> count, groups |-> groups, critical |-> critical]

\* String::new()
EmptyMessage == Message("", 0, 0, 0)

\* AppState::default()
AppStateDefault ==
    [selected_dir |-> "", scanning |-> FALSE, duplicate_groups |-> <<>>,
     total_size_savings |-> 0, status_message |-> EmptyMessage, preview_mode |-> FALSE]

\* the last operation was no deletion
NoOp == [name |-> "none", group |-> 0, removed |-> {}, failed |-> {}]

NoWorker == [pc |-> "none", result |-> NoResult]

\* DupeFinderApp::default()
AppIdle ==
    /\ state = AppStateDefault
    /\ scan_progress = None
    /\ result_receiver = None
    /\ channel = <<>>
    /\ worker = NoWorker
    /\ op = NoOp

Init ==
    /\ fs \in Trees
    /\ config \in Configs
    /\ ScanIdle
    /\ PureIdle
    /\ AppIdle
    /\ disk = {}

\* ------------------------------------------------------------------------
\* scan_directory, step by step
\* ------------------------------------------------------------------------
\* Phase 1: the walk, to completion
Walk ==
    /\ pc = "Idle"
    /\ LET acc == Discover(Walker(config), config,
                           [files_by_size |-> EmptyMap, total_files |-> 0])
       IN /\ files_by_size' = acc.files_by_size
          /\ total_files' = acc.total_files
    /\ pc' = "Discovering"
    /\ UNCHANGED <<pureVars, appVars, fs, config, potential_duplicates, bucket, arrival, hash_results,
                   zipped, files_by_hash, processed_count, duplicates, events, result>>

\* the progress event after the walk, then the filter to the candidate
\* buckets, collected in the order the HashMap iterates
ReportDiscovery ==
    /\ pc = "Discovering"
    /\ events' = Append(events,
                        ScanProgress(total_files, total_files, <<"Discovery complete">>, "Hashing"))
    /\ \E o \in Orders({s \in DOMAIN files_by_size : IsCandidate(files_by_size[s])}) :
          potential_duplicates' =
              [k \in DOMAIN o |-> [size |-> o[k], paths_with_time |-> files_by_size[o[k]]]]
    /\ duplicates' = <<>>
    /\ processed_count' = 0
    /\ pc' = "Hashing"
    /\ UNCHANGED <<pureVars, appVars, fs, config, files_by_size, total_files, bucket, arrival,
                   hash_results, zipped, files_by_hash, result>>

\* the outer loop takes the next candidate bucket
BeginBucket ==
    /\ pc = "Hashing"
    /\ ~bucket.active
    /\ potential_duplicates # <<>>
    /\ bucket' = [active |-> TRUE, size |-> Head(potential_duplicates).size,
                  paths_with_time |-> Head(potential_duplicates).paths_with_time]
    /\ potential_duplicates' = Tail(potential_duplicates)
    /\ arrival' = <<>>
    /\ hash_results' = <<>>
    /\ zipped' = 0
    /\ files_by_hash' = EmptyMap
    /\ UNCHANGED <<pureVars, appVars, fs, config, pc, files_by_size, total_files, processed_count,
                   duplicates, events, result>>

paths == [k \in 1..Len(bucket.paths_with_time) |-> bucket.paths_with_time[k].path]

Hashed == {arrival[t].index : t \in 1..Len(arrival)}

\* one parallel task hashes one path of the bucket
HashTask(i) ==
    /\ pc = "Hashing"
    /\ bucket.active
    /\ hash_results = <<>>
    /\ i \in 1..Len(paths) \ Hashed
    /\ arrival' = Append(arrival, [index |-> i, result |-> hash_file(paths[i], config)])
    /\ UNCHANGED <<pureVars, appVars, fs, config, pc, files_by_size, total_files, potential_duplicates,
                   bucket, hash_results, zipped, files_by_hash, processed_count,
                   duplicates, events, result>>

\* all tasks are done: collect() returns (arrival, the order of completion, is
\* kept until the loop over the results begins)
CollectResults ==
    /\ pc = "Hashing"
    /\ bucket.active
    /\ hash_results = <<>>
    /\ Len(arrival) = Len(paths)
    /\ hash_results' = Collect(paths, arrival)
    /\ UNCHANGED <<pureVars, appVars, fs, config, pc, files_by_size, total_files, potential_duplicates,
                   bucket, arrival, zipped, files_by_hash, processed_count, duplicates,
                   events, result>>

\* variant: only a file whose hash succeeded is counted and reported
FoldResultTickOnSuccess ==
    /\ pc = "Hashing"
    /\ bucket.active
    /\ hash_results # <<>>
    /\ zipped < Len(Zip(hash_results, bucket.paths_with_time))
    /\ LET hr == Zip(hash_results, bucket.paths_with_time)[zipped + 1].hr
           rec == Zip(hash_results, bucket.paths_with_time)[zipped + 1].rec
       IN /\ processed_count' = IF hr.result.ok THEN processed_count + 1 ELSE processed_count
          /\ events' = IF hr.result.ok
                       THEN Append(events,
                                ScanProgress(processed_count + 1, total_files,
                                             display(hr.path), "Hashing"))
                       ELSE events
          /\ files_by_hash' = FoldInto(files_by_hash, hr, rec)
    /\ zipped' = zipped + 1
    /\ arrival' = <<>>
    /\ UNCHANGED <<pureVars, appVars, fs, config, pc, files_by_size, total_files, potential_duplicates,
                   bucket, hash_results, duplicates, result>>

\* one iteration of the loop over hash_results zipped with paths_with_time
FoldResult ==
    /\ pc = "Hashing"
    /\ bucket.active
    /\ hash_results # <<>>
    /\ zipped < Len(Zip(hash_results, bucket.paths_with_time))
    /\ LET hr == Zip(hash_results, bucket.paths_with_time)[zipped + 1].hr
           rec == Zip(hash_results, bucket.paths_with_time)[zipped + 1].rec
       IN /\ processed_count' = processed_count + 1
          /\ events' = Append(events,
                 ScanProgress(processed_count + 1, total_files, display(hr.path), "Hashing"))
          /\ files_by_hash' = FoldInto(files_by_hash, hr, rec)
    /\ zipped' = zipped + 1
    /\ arrival' = <<>>
    /\ UNCHANGED <<pureVars, appVars, fs, config, pc, files_by_size, total_files, potential_duplicates,
                   bucket, hash_results, duplicates, result>>

\* the loop over files_by_hash, in the order the HashMap iterates
EmitGroups ==
    /\ pc = "Hashing"
    /\ bucket.active
    /\ hash_results # <<>>
    /\ zipped = Len(Zip(hash_results, bucket.paths_with_time))
    /\ \E o \in Orders({h \in DOMAIN files_by_hash : IsDuplicateGroup(files_by_hash[h])}) :
          duplicates' = duplicates \o
              [k \in DOMAIN o |-> MakeGroup(bucket.size, files_by_hash[o[k]])]
    /\ bucket' = NoBucket
    /\ arrival' = <<>>
    /\ hash_results' = <<>>
    /\ zipped' = 0
    /\ files_by_hash' = EmptyMap
    /\ UNCHANGED <<pureVars, appVars, fs, config, pc, files_by_size, total_files, potential_duplicates,
                   processed_count, events, result>>

\* variant: the scan can return between two buckets, though buckets remain
FinishBeforeLastBucket ==
    /\ pc = "Hashing"
    /\ ~bucket.active
    /\ result' = [kind |-> "Ok", groups |-> duplicates]
    /\ pc' = "Done"
    /\ UNCHANGED <<pureVars, appVars, fs, config, files_by_size, total_files, potential_duplicates,
                   bucket, arrival, hash_results, zipped, files_by_hash,
                   processed_count, duplicates, events>>

\* Ok(duplicates)
Finish ==
    /\ pc = "Hashing"
    /\ ~bucket.active
    /\ potential_duplicates = <<>>
    /\ result' = [kind |-> "Ok", groups |-> duplicates]
    /\ pc' = "Done"
    /\ UNCHANGED <<pureVars, appVars, fs, config, files_by_size, total_files, potential_duplicates,
                   bucket, arrival, hash_results, zipped, files_by_hash,
                   processed_count, duplicates, events>>

Next ==
    \/ Walk
    \/ ReportDiscovery
    \/ BeginBucket
    \/ \E i \in 1..NumFiles : HashTask(i)
    \/ CollectResults
    \/ FoldResult
    \/ EmitGroups
    \/ Finish

Spec == Init /\ [][Next]_vars

\* the step of Walk, which can be taken exactly when pc = "Idle"
WalkStep == pc = "Idle" /\ pc' = "Discovering"

\* the steps after the walk
AfterWalk ==
    \/ ReportDiscovery
    \/ BeginBucket
    \/ \E i \in 1..NumFiles : HashTask(i)
    \/ CollectResults
    \/ FoldResult
    \/ EmitGroups
    \/ Finish

\* the trees that differ from a plain tree in one way at most
TreesOfOneDeviation ==
    {t \in {TreeOf(D, c) : D \in DeviationSets(1), c \in [Files -> Contents]} :
        Canonical(t)}

\* a scan of such a tree under the default configuration
InitScan ==
    /\ fs \in TreesOfOneDeviation
    /\ config = DefaultConfig
    /\ ScanIdle
    /\ PureIdle
    /\ AppIdle
    /\ disk = {}

\* scan_directory is one sequential call, and the pool runs every task of a
\* bucket: a step that can be taken is taken
SpecScan ==
    /\ InitScan
    /\ [][Next]_vars
    /\ WF_pc(WalkStep)
    /\ WF_vars(AfterWalk)

\* ------------------------------------------------------------------------
\* The pure functions, called on their own
\* ------------------------------------------------------------------------
Times == {None} \cup {Some(t) : t \in 1..MaxTime}

\* the k-th file of a group, last modified at t
FileInfoOf(k, t) ==
    [path |-> << <<"r">>, <<"f", Digits[k]>> >>, size |-> 1,
     modified_time |-> t, is_critical |-> FALSE]

GroupsOfLen(n) == {[k \in 1..n |-> FileInfoOf(k, ts[k])] : ts \in [1..n -> Times]}

FileGroups == UNION {GroupsOfLen(n) : n \in 0..MaxGroupLen}

\* names of files and directories: plain, sensitive, and not valid Unicode
Names ==
    { <<"r">>, <<"f", "1">>, <<"n", "v", "i", "m">>,
      <<".", "s", "s", "h">>, <<".", "e", "n", "v">>,
      <<".", "c", "o", "n", "f", "i", "g">>,
      <<".", Invalid, "f", "1">> }

PathsOfLen(n) == [1..n -> Names]

FilePaths == UNION {PathsOfLen(n) : n \in 0..MaxDepth}

\* no tree is scanned
PlainTree == TreeOf({}, [f \in Files |-> <<>>])

InitPure ==
    /\ fs = PlainTree
    /\ config = DefaultConfig
    /\ ScanIdle
    /\ PureIdle
    /\ AppIdle
    /\ disk = {}

\* one call of one function is made in a behaviour
CallKeepNewest ==
    /\ PureIdle
    /\ \E files \in FileGroups :
          /\ call' = [fn |-> "KeepNewest", arg |-> files]
          /\ ret' = [val |-> KeepNewestStrategy(files)]
    /\ UNCHANGED <<scanVars, appVars>>

CallKeepOldest ==
    /\ PureIdle
    /\ \E files \in FileGroups :
          /\ call' = [fn |-> "KeepOldest", arg |-> files]
          /\ ret' = [val |-> KeepOldestStrategy(files)]
    /\ UNCHANGED <<scanVars, appVars>>

CallKeepAll ==
    /\ PureIdle
    /\ \E files \in FileGroups :
          /\ call' = [fn |-> "KeepAll", arg |-> files]
          /\ ret' = [val |-> KeepAllStrategy(files)]
    /\ UNCHANGED <<scanVars, appVars>>

CallKeepNone ==
    /\ PureIdle
    /\ \E files \in FileGroups :
          /\ call' = [fn |-> "KeepNone", arg |-> files]
          /\ ret' = [val |-> KeepNoneStrategy(files)]
    /\ UNCHANGED <<scanVars, appVars>>

CallIsCritical ==
    /\ PureIdle
    /\ \E path \in FilePaths :
          /\ call' = [fn |-> "is_critical_file", arg |-> path]
          /\ ret' = [val |-> is_critical_file(path)]
    /\ UNCHANGED <<scanVars, appVars>>

\* ---- serde_json: Vec<DuplicateGroup> to text and back ----

\* Path::to_str on a whole path: None when a component is not valid Unicode
path_to_str(path) ==
    IF \E k \in 1..Len(path) : to_str(path[k]) = None THEN None
    ELSE Some(IF Len(path) = 0 THEN <<>>
              ELSE [k \in 1..Len(path) |-> path[k]])

RECURSIVE Join(_)
\* the string of a path: its components separated by "/"
Join(path) ==
    IF Len(path) = 0 THEN <<>>
    ELSE IF Len(path) = 1 THEN path[1]
    ELSE path[1] \o <<"/">> \o Join(Tail(path))

\* index of the first "/" of s, or Len(s) + 1
FirstSlash(s) ==
    IF \E i \in 1..Len(s) : s[i] = "/"
    THEN CHOOSE i \in 1..Len(s) : s[i] = "/" /\ \A j \in 1..(i - 1) : s[j] # "/"
    ELSE Len(s) + 1

RECURSIVE Components(_)
\* PathBuf::from(s): the components of the string s
Components(s) ==
    IF Len(s) = 0 THEN <<>>
    ELSE LET i == FirstSlash(s)
         IN  IF i > Len(s) THEN <<s>>
             ELSE <<SubSeq(s, 1, i - 1)>> \o Components(SubSeq(s, i + 1, Len(s)))

\* a path is written lossily, never refused
SerializePathLossy(path) == Some(display(path))

\* impl Serialize for PathBuf: the string of the path, an error when it is not Unicode
SerializePath(path) ==
    IF path_to_str(path) = None THEN None ELSE Some(Join(path_to_str(path)[1]))

\* impl Serialize for SystemTime, under Option: null, or the time since the epoch
SerializeTime(t) ==
    IF t = None THEN [null |-> TRUE]
    ELSE [null |-> FALSE, secs_since_epoch |-> t[1], nanos_since_epoch |-> 0]

DeserializeTime(j) ==
    IF j.null THEN None ELSE Some(j.secs_since_epoch)

SerializeFile(file) ==
    [path |-> SerializePath(file.path)[1], size |-> file.size,
     modified_time |-> SerializeTime(file.modified_time),
     is_critical |-> file.is_critical]

DeserializeFile(j) ==
    [path |-> Components(j.path), size |-> j.size,
     modified_time |-> DeserializeTime(j.modified_time),
     is_critical |-> j.is_critical]

\* a text that is a JSON array of objects
JsonArray(value) == [array |-> TRUE, value |-> value]

\* a text that is no JSON array of groups
NotJson == [array |-> FALSE, value |-> <<>>]

\* serde_json::to_string_pretty(&duplicate_groups)
to_string_pretty(groups) ==
    IF \E g \in 1..Len(groups) : \E k \in 1..Len(groups[g].files) :
          SerializePath(groups[g].files[k].path) = None
    THEN [kind |-> "Err", json |-> NotJson]
    ELSE [kind |-> "Ok",
          json |-> JsonArray([g \in 1..Len(groups) |->
                      [files |-> [k \in 1..Len(groups[g].files) |->
                                     SerializeFile(groups[g].files[k])],
                       selected |-> groups[g].selected]])]

\* serde_json::from_str::<Vec<DuplicateGroup>>(json): an error unless the text
\* is an array of groups
from_str(json) ==
    IF ~json.array THEN [kind |-> "Err", groups |-> <<>>]
    ELSE [kind |-> "Ok",
          groups |-> [g \in 1..Len(json.value) |->
                        [files |-> [k \in 1..Len(json.value[g].files) |->
                                       DeserializeFile(json.value[g].files[k])],
                         selected |-> json.value[g].selected]]]

\* duplicate_groups after export_results and, when a text was produced,
\* import_results of that text
export_then_import(groups) ==
    LET exported == to_string_pretty(groups)
        imported == from_str(exported.json)
    IN  [exported |-> exported.kind,
         groups |-> IF exported.kind = "Ok" /\ imported.kind = "Ok"
                    THEN imported.groups ELSE groups]

\* the files a list of groups is drawn from
ListFiles ==
    {[path |-> p, size |-> 1, modified_time |-> t, is_critical |-> c] :
        p \in {<< <<"r">>, <<"f", "1">> >>, << <<"r">>, <<".", Invalid, "f", "1">> >>},
        t \in Times, c \in BOOLEAN}

ListGroupsOfLen(n) ==
    {[files |-> fl, selected |-> sel] : fl \in [1..n -> ListFiles], sel \in [1..n -> BOOLEAN]}

\* lists of at most two groups; a group of a list of two holds one file
GroupLists ==
    {<<>>} \cup {<<g>> : g \in ListGroupsOfLen(0) \cup ListGroupsOfLen(1) \cup ListGroupsOfLen(2)}
           \cup {<<g, h>> : g \in ListGroupsOfLen(1), h \in ListGroupsOfLen(1)}

CallExportImport ==
    /\ PureIdle
    /\ \E groups \in GroupLists :
          /\ call' = [fn |-> "export_then_import", arg |-> groups]
          /\ ret' = [val |-> export_then_import(groups)]
    /\ UNCHANGED <<scanVars, appVars>>

NextPure ==
    \/ CallExportImport
    \/ CallKeepNewest
    \/ CallKeepOldest
    \/ CallKeepAll
    \/ CallKeepNone
    \/ CallIsCritical

SpecPure == InitPure /\ [][NextPure]_vars

\* ------------------------------------------------------------------------
\* The app: what a scan can hand to it
\* ------------------------------------------------------------------------
ListedFiles == 1..NumListed

\* the second file lies in a sensitive directory, and the name of the third
\* is not valid Unicode
AppPath(k) ==
    IF k = 2 THEN << <<"r">>, <<".", "s", "s", "h">>, <<"f", Digits[k]>> >>
    ELSE IF k = 3 THEN << <<"r">>, <<Invalid, Digits[k]>> >>
    ELSE << <<"r">>, <<"f", Digits[k]>> >>

AppFileInfo(k, size) ==
    [path |-> AppPath(k), size |-> size, modified_time |-> Some(k),
     is_critical |-> is_critical_file(AppPath(k))]

\* the files that exist, in the order of the walk
OnDisk ==
    LET S == {k \in ListedFiles : AppPath(k) \in disk}
    IN CHOOSE q \in [1..Cardinality(S) -> S] : \A i, j \in DOMAIN q : i < j => q[i] < q[j]

\* a group of the files at places a..b of OnDisk, all of one size
Run(a, b) == [k \in 1..(b - a + 1) |-> AppFileInfo(OnDisk[a + k - 1], a)]

\* the lists of groups of at least two files each that cover places a..n
RECURSIVE Splits(_, _)
Splits(a, n) ==
    IF a > n THEN {<<>>}
    ELSE UNION {{<<Run(a, b)>> \o rest : rest \in Splits(b + 1, n)} : b \in (a + 1)..n}

\* what scan_directory can return for the files that exist
ScanResults == UNION {Splits(1, n) : n \in 0..Len(OnDisk)}

\* what the callback can be handed
ProgressEvents == {ScanProgress(1, 1, <<"Discovery complete">>, "Hashing")}

\* ------------------------------------------------------------------------
\* The app: its operations
\* ------------------------------------------------------------------------
\* variant: the places whose keep flag is true
Checked(group) ==
    {k \in 1..Min(Len(group.files), Len(group.selected)) : group.selected[k]}

\* the places of a group whose keep flag is false: files zipped with selected
Unchecked(group) ==
    {k \in 1..Min(Len(group.files), Len(group.selected)) : ~group.selected[k]}

RECURSIVE SumSizes(_, _)
SumSizes(files, K) ==
    IF K = {} THEN 0
    ELSE LET k == CHOOSE k \in K : TRUE IN files[k].size + SumSizes(files, K \ {k})

\* the sum of size over the unchecked files of every group
RECURSIVE calculate_savings(_)
calculate_savings(groups) ==
    IF groups = <<>> THEN 0
    ELSE SumSizes(Head(groups).files, Unchecked(Head(groups)))
             + calculate_savings(Tail(groups))

\* Vec::remove of every index in gone
remove_groups(groups, gone) ==
    LET kept == SelectSeq([g \in 1..Len(groups) |-> g], LAMBDA g : g \notin gone)
    IN [j \in 1..Len(kept) |-> groups[kept[j]]]

CriticalAmong(group, K) == Cardinality({k \in K : group.files[k].is_critical})

\* the process has not panicked
Running == op.name # "panicked"

\* the text field and the folder dialog
SetSelectedDir ==
    /\ Running
    /\ \E dir \in {"", "r"} :
          /\ dir # state.selected_dir
          /\ state' = [state EXCEPT !.selected_dir = dir]
    /\ op' = NoOp
    /\ UNCHANGED <<scanVars, pureVars, scan_progress, result_receiver, channel,
                   worker, disk>>

\* the checkbox of the preview mode
SetPreviewMode ==
    /\ Running
    /\ state' = [state EXCEPT !.preview_mode = ~@]
    /\ op' = NoOp
    /\ UNCHANGED <<scanVars, pureVars, scan_progress, result_receiver, channel,
                   worker, disk>>

\* variant: a scan is started though one is in flight
start_scanWhileScanning ==
    /\ Running
    /\ IF state.selected_dir = ""
       THEN UNCHANGED <<state, result_receiver, worker>>
       ELSE /\ state' = [state EXCEPT !.scanning = TRUE,
                                      !.duplicate_groups = <<>>,
                                      !.total_size_savings = 0,
                                      !.status_message = EmptyMessage]
            /\ result_receiver' = Some("rx")
            /\ worker' = [pc |-> "scanning", result |-> NoResult]
    /\ op' = NoOp
    /\ UNCHANGED <<scanVars, pureVars, scan_progress, channel, disk>>

start_scan ==
    /\ Running
    /\ IF state.selected_dir = "" \/ state.scanning
       THEN UNCHANGED <<state, result_receiver, worker>>
       ELSE /\ state' = [state EXCEPT !.scanning = TRUE,
                                      !.duplicate_groups = <<>>,
                                      !.total_size_savings = 0,
                                      !.status_message = EmptyMessage]
            /\ result_receiver' = Some("rx")
            /\ worker' = [pc |-> "scanning", result |-> NoResult]
    /\ op' = NoOp
    /\ UNCHANGED <<scanVars, pureVars, scan_progress, channel, disk>>

\* the worker thread: the callback of scan_directory stores an event
WorkerProgress ==
    /\ Running
    /\ worker.pc = "scanning"
    /\ \E p \in ProgressEvents : scan_progress' = Some(p)
    /\ UNCHANGED <<scanVars, pureVars, state, result_receiver, channel, worker, disk, op>>

\* the worker thread: scan_directory returns
WorkerReturn ==
    /\ Running
    /\ worker.pc = "scanning"
    /\ \E groups \in ScanResults :
          worker' = [pc |-> "returned", result |-> [kind |-> "Ok", groups |-> groups]]
    /\ UNCHANGED <<scanVars, pureVars, state, scan_progress, result_receiver, channel,
                   disk, op>>

\* variant: the worker does not clear the slot before it sends
WorkerClearSkipped ==
    /\ Running
    /\ worker.pc = "returned"
    /\ worker' = [worker EXCEPT !.pc = "cleared"]
    /\ UNCHANGED <<scanVars, pureVars, state, scan_progress, result_receiver, channel,
                   disk, op>>

\* the worker thread: *progress.lock().unwrap() = None
WorkerClear ==
    /\ Running
    /\ worker.pc = "returned"
    /\ scan_progress' = None
    /\ worker' = [worker EXCEPT !.pc = "cleared"]
    /\ UNCHANGED <<scanVars, pureVars, state, result_receiver, channel, disk, op>>

\* variant: the thread ends without sending the result
WorkerSendDropped ==
    /\ Running
    /\ worker.pc = "cleared"
    /\ worker' = NoWorker
    /\ UNCHANGED <<scanVars, pureVars, state, scan_progress, result_receiver, channel,
                   disk, op>>

\* the worker thread: tx.send(result), and the thread ends
WorkerSend ==
    /\ Running
    /\ worker.pc = "cleared"
    /\ channel' = Append(channel, worker.result)
    /\ worker' = NoWorker
    /\ UNCHANGED <<scanVars, pureVars, state, scan_progress, result_receiver, disk, op>>

\* update: try_recv() has a result
update ==
    /\ Running
    /\ result_receiver # None
    /\ channel # <<>>
    /\ LET received == Head(channel)
           groups == [g \in 1..Len(received.groups) |->
                         [files |-> received.groups[g],
                          selected |-> [k \in 1..Len(received.groups[g]) |-> TRUE]]]
       IN IF received.kind = "Ok"
          THEN state' = [state EXCEPT
                   !.duplicate_groups = groups,
                   !.scanning = FALSE,
                   !.total_size_savings = calculate_savings(groups),
                   !.status_message =
                       IF groups = <<>> THEN Message("No duplicates found.", 0, 0, 0)
                       ELSE Message("Found", 0, Len(groups), 0)]
          ELSE state' = [state EXCEPT
                   !.scanning = FALSE,
                   !.status_message = Message("Scan error", 0, 0, 0)]
    /\ channel' = Tail(channel)
    /\ result_receiver' = None
    /\ op' = NoOp
    /\ UNCHANGED <<scanVars, pureVars, scan_progress, worker, disk>>

\* a keep checkbox changes, and the savings are calculated again
Toggle(group_idx, idx) ==
    /\ Running
    /\ group_idx \in 1..Len(state.duplicate_groups)
    /\ idx \in 1..Len(state.duplicate_groups[group_idx].files)
    /\ LET groups == [state.duplicate_groups EXCEPT ![group_idx].selected[idx] = ~@]
       IN state' = [state EXCEPT !.duplicate_groups = groups,
                                 !.total_size_savings = calculate_savings(groups)]
    /\ op' = NoOp
    /\ UNCHANGED <<scanVars, pureVars, scan_progress, result_receiver, channel,
                   worker, disk>>

\* strategy.select(&group.files) of the two strategies that have a button
Select(strategy, files) ==
    IF strategy = "newest" THEN KeepNewestStrategy(files) ELSE KeepOldestStrategy(files)

\* bulk_select_newest and bulk_select_oldest
bulk_apply_selection_strategy(strategy) ==
    /\ Running
    /\ state.duplicate_groups # <<>>
    /\ LET groups == [g \in 1..Len(state.duplicate_groups) |->
                         [state.duplicate_groups[g] EXCEPT !.selected =
                             Select(strategy, state.duplicate_groups[g].files)]]
       IN state' = [state EXCEPT !.duplicate_groups = groups,
                                 !.total_size_savings = calculate_savings(groups)]
    /\ op' = NoOp
    /\ UNCHANGED <<scanVars, pureVars, scan_progress, result_receiver, channel,
                   worker, disk>>

\* variant: the strategy is applied to every group
apply_selection_strategyToAll(strategy, group_idx) ==
    /\ group_idx \in 1..Len(state.duplicate_groups)
    /\ bulk_apply_selection_strategy(strategy)

\* select_newest and select_oldest
apply_selection_strategy(strategy, group_idx) ==
    /\ Running
    /\ group_idx \in 1..Len(state.duplicate_groups)
    /\ LET groups == [state.duplicate_groups EXCEPT ![group_idx].selected =
                         Select(strategy, state.duplicate_groups[group_idx].files)]
       IN state' = [state EXCEPT !.duplicate_groups = groups,
                                 !.total_size_savings = calculate_savings(groups)]
    /\ op' = NoOp
    /\ UNCHANGED <<scanVars, pureVars, scan_progress, result_receiver, channel,
                   worker, disk>>

\* variant: the files are removed in preview mode too
DeleteLoopIgnoringPreview(group, preview_mode, failed) ==
    [deleted |-> Unchecked(group) \ failed,
     errors |-> Unchecked(group) \cap failed,
     removes |-> TRUE]

\* the loop over the files of one group zipped with its keep flags; failed
\* are the places at which remove_file returns an error. In preview mode the
\* unchecked files are counted and remove_file is not called.
DeleteLoop(group, preview_mode, failed) ==
    IF ~preview_mode
    THEN [deleted |-> Unchecked(group) \ failed,
          errors |-> Unchecked(group) \cap failed,
          removes |-> TRUE]
    ELSE [deleted |-> Unchecked(group), errors |-> {}, removes |-> FALSE]

\* the places of a group whose file does not exist: remove_file fails there
Missing(group) == {k \in Unchecked(group) : group.files[k].path \notin disk}

\* variant: every file of the group
PathsAtEveryPlace(group, K) == {group.files[k].path : k \in 1..Len(group.files)}

PathsAt(group, K) == {group.files[k].path : k \in K}

delete_unchecked(group_idx) ==
    /\ Running
    /\ group_idx \in 1..Len(state.duplicate_groups)
    /\ LET group == state.duplicate_groups[group_idx]
       IN \E failed \in SUBSET Unchecked(group) :
            /\ Missing(group) \subseteq failed
            /\ state.preview_mode => failed = Missing(group)
            /\ LET loop == DeleteLoop(group, state.preview_mode, failed)
                   removed == IF loop.removes THEN PathsAt(group, loop.deleted) ELSE {}
                   critical == CriticalAmong(group, Unchecked(group))
                   remaining == remove_groups(state.duplicate_groups, {group_idx})
               IN /\ disk' = disk \ removed
                  /\ state' =
                        IF loop.errors = {}
                        THEN [state EXCEPT
                                 !.status_message =
                                     Message(IF state.preview_mode THEN "Would delete"
                                             ELSE "Deleted",
                                             Cardinality(loop.deleted), group_idx, critical),
                                 !.duplicate_groups =
                                     IF state.preview_mode THEN @ ELSE remaining,
                                 !.total_size_savings =
                                     IF state.preview_mode THEN @
                                     ELSE calculate_savings(remaining)]
                        ELSE [state EXCEPT
                                 !.status_message =
                                     Message("Errors", Cardinality(loop.errors), 0, 0)]
                  /\ op' = [name |-> "delete_unchecked", group |-> group_idx,
                            removed |-> removed,
                            failed |-> PathsAt(group, loop.errors)]
    /\ UNCHANGED <<scanVars, pureVars, scan_progress, result_receiver, channel, worker>>

\* the unchecked files of every group, as pairs of group and place
Targets(groups) ==
    UNION {{<<g, k>> : k \in Unchecked(groups[g])} : g \in 1..Len(groups)}

bulk_delete_unchecked ==
    /\ Running
    /\ state.duplicate_groups # <<>>
    /\ LET groups == state.duplicate_groups
           missing == {x \in Targets(groups) : x[2] \in Missing(groups[x[1]])}
       IN \E failed \in SUBSET Targets(groups) :
            /\ missing \subseteq failed
            /\ state.preview_mode => failed = missing
            /\ LET loop == [g \in 1..Len(groups) |->
                               DeleteLoop(groups[g], state.preview_mode,
                                          {k \in Unchecked(groups[g]) : <<g, k>> \in failed})]
                   deleted == {x \in Targets(groups) : x[2] \in loop[x[1]].deleted}
                   errors == {x \in Targets(groups) : x[2] \in loop[x[1]].errors}
                   groups_to_remove == {g \in 1..Len(groups) : loop[g].deleted # {}}
                   removed == {groups[x[1]].files[x[2]].path :
                                  x \in {y \in deleted : loop[y[1]].removes}}
                   critical == Cardinality({x \in Targets(groups) :
                                               groups[x[1]].files[x[2]].is_critical})
                   remaining == remove_groups(groups, groups_to_remove)
               IN /\ disk' = disk \ removed
                  /\ state' = [state EXCEPT
                        !.status_message =
                            IF errors = {}
                            THEN Message(IF state.preview_mode THEN "Would bulk delete"
                                         ELSE "Bulk deleted",
                                         Cardinality(deleted),
                                         Cardinality(groups_to_remove), critical)
                            ELSE Message("Bulk errors", Cardinality(errors), 0, 0),
                        !.duplicate_groups = IF state.preview_mode THEN @ ELSE remaining,
                        !.total_size_savings =
                            IF state.preview_mode THEN @ ELSE calculate_savings(remaining)]
                  /\ op' = [name |-> "bulk_delete_unchecked", group |-> 0,
                            removed |-> removed,
                            failed |-> {groups[x[1]].files[x[2]].path : x \in errors}]
    /\ UNCHANGED <<scanVars, pureVars, scan_progress, result_receiver, channel, worker>>

\* the Export Results button: export_results, then the file dialog and the write
export_results ==
    /\ Running
    /\ state.duplicate_groups # <<>>
    /\ LET exported == to_string_pretty(state.duplicate_groups)
       IN IF exported.kind = "Ok"
          THEN \E saved \in {"cancelled", "written", "failed"} :
                  state' = [state EXCEPT !.status_message =
                              IF saved = "cancelled" THEN @
                              ELSE IF saved = "written"
                                   THEN Message("Results exported", 0, 0, 0)
                                   ELSE Message("Failed to save file", 0, 0, 0)]
          ELSE state' = [state EXCEPT !.status_message =
                            Message("Failed to serialize results", 0, 0, 0)]
    /\ op' = NoOp
    /\ UNCHANGED <<scanVars, pureVars, scan_progress, result_receiver, channel,
                   worker, disk>>

\* a listed file of a text that is read
ImportedFile(k) == [AppFileInfo(k, 1) EXCEPT !.is_critical = FALSE]

\* the lists whose text the file dialog can pick: no group, a group as it was
\* exported, and groups written by hand: without files, with fewer and with
\* more keep flags than files, of one file
ImportLists ==
    { <<>>,
      <<[files |-> <<ImportedFile(1), ImportedFile(2)>>, selected |-> <<TRUE, FALSE>>]>>,
      <<[files |-> <<>>, selected |-> <<>>]>>,
      <<[files |-> <<ImportedFile(1), ImportedFile(2)>>, selected |-> <<FALSE>>]>>,
      <<[files |-> <<ImportedFile(1), ImportedFile(2)>>, selected |-> <<TRUE, FALSE, FALSE>>]>>,
      <<[files |-> <<ImportedFile(2)>>, selected |-> <<FALSE>>]>> }

\* the texts the file dialog can pick
ImportTexts == {NotJson} \cup {to_string_pretty(groups).json : groups \in ImportLists}

\* the frame draws every group: group.files[0], and group.selected[idx] for
\* every idx of group.files
RenderPanics(groups) ==
    \E g \in 1..Len(groups) :
        \/ Len(groups[g].files) = 0
        \/ Len(groups[g].selected) < Len(groups[g].files)

\* the Import Results button: the text of the picked file goes to
\* import_results, and the rest of the frame draws the groups
import_results ==
    /\ Running
    /\ state.duplicate_groups # <<>>
    /\ \E json \in ImportTexts :
          LET parsed == from_str(json)
          IN IF parsed.kind = "Ok"
             THEN /\ state' = [state EXCEPT
                         !.duplicate_groups = parsed.groups,
                         !.total_size_savings = calculate_savings(parsed.groups),
                         !.status_message = Message("Imported", 0, Len(parsed.groups), 0)]
                  /\ op' = [NoOp EXCEPT !.name =
                               IF RenderPanics(parsed.groups) THEN "panicked"
                               ELSE "import_results"]
             ELSE /\ state' = [state EXCEPT !.status_message =
                                  Message("Failed to import results", 0, 0, 0)]
                  /\ op' = NoOp
    /\ UNCHANGED <<scanVars, pureVars, scan_progress, result_receiver, channel,
                   worker, disk>>

InitApp ==
    /\ fs = PlainTree
    /\ config = DefaultConfig
    /\ ScanIdle
    /\ PureIdle
    /\ AppIdle
    /\ disk = {AppPath(k) : k \in ListedFiles}

NextApp ==
    \/ SetSelectedDir
    \/ SetPreviewMode
    \/ start_scan
    \/ WorkerProgress
    \/ WorkerReturn
    \/ WorkerClear
    \/ WorkerSend
    \/ update
    \/ \E group_idx \in 1..NumListed, idx \in 1..NumListed : Toggle(group_idx, idx)
    \/ \E strategy \in {"newest", "oldest"}, group_idx \in 1..NumListed :
          apply_selection_strategy(strategy, group_idx)
    \/ \E strategy \in {"newest", "oldest"} : bulk_apply_selection_strategy(strategy)
    \/ \E group_idx \in 1..NumListed : delete_unchecked(group_idx)
    \/ bulk_delete_unchecked
    \/ export_results
    \/ import_results

SpecApp == InitApp /\ [][NextApp]_vars

\* the worker thread is scheduled, and the repaint it requests after every
\* event and after the send calls update again
SpecAppFair ==
    /\ SpecApp
    /\ WF_vars(WorkerReturn)
    /\ WF_vars(WorkerClear)
    /\ WF_vars(WorkerSend)
    /\ WF_vars(update)

\* ---- the keep flags of listed groups ----

\* the groups a scan has returned, as update lists them: every keep flag true
Listed(files) == [files |-> files, selected |-> [k \in 1..Len(files) |-> TRUE]]

\* the files of a second group
Renamed(files) ==
    [k \in 1..Len(files) |->
        [files[k] EXCEPT !.path = << <<"r">>, <<"g", Digits[k]>> >>, !.size = 2]]

\* one group of two files or more, or two groups of two files
SelectLists ==
    {<<Listed(files)>> : files \in UNION {GroupsOfLen(n) : n \in 2..MaxGroupLen}}
        \cup {<<Listed(first), Listed(Renamed(second))>> :
                 first \in GroupsOfLen(2), second \in GroupsOfLen(2)}

\* update has received the groups of a scan
InitSelect ==
    /\ fs = PlainTree
    /\ config = DefaultConfig
    /\ ScanIdle
    /\ PureIdle
    /\ scan_progress = None
    /\ result_receiver = None
    /\ channel = <<>>
    /\ worker = NoWorker
    /\ op = NoOp
    /\ \E groups \in SelectLists :
          /\ state = [AppStateDefault EXCEPT
                         !.selected_dir = "r",
                         !.duplicate_groups = groups,
                         !.total_size_savings = calculate_savings(groups),
                         !.status_message = Message("Found", 0, Len(groups), 0)]
          /\ disk = UNION {{groups[g].files[k].path : k \in 1..Len(groups[g].files)} :
                              g \in 1..Len(groups)}

NextSelect ==
    \/ \E group_idx \in 1..2, idx \in 1..MaxGroupLen : Toggle(group_idx, idx)
    \/ \E strategy \in {"newest", "oldest"}, group_idx \in 1..2 :
          apply_selection_strategy(strategy, group_idx)
    \/ \E strategy \in {"newest", "oldest"} : bulk_apply_selection_strategy(strategy)

SpecSelect == InitSelect /\ [][NextSelect]_vars

TypeOK ==
    /\ pc \in {"Idle", "Discovering", "Hashing", "Done", "Failed"}
    /\ config \in Configs
    /\ total_files \in 0..NumFiles
    /\ processed_count \in 0..NumFiles
    /\ result.kind \in {"None", "Ok", "Err"}


\* ------------------------------------------------------------------------
\* Vocabulary of the properties: what the tree holds, independently of the
\* scanner's own functions
\* ------------------------------------------------------------------------
Content(f) == fs.files[f].content
Size(f) == Len(Content(f))

\* lies at or beneath an entry whose name begins with "."
HiddenPath(f) ==
    fs.root = "hidden" \/ fs.files[f].place = "hid" \/ fs.files[f].dot \/ fs.files[f].raw

\* lies at or beneath an entry whose name is valid Unicode and begins with "."
HiddenUnicodePath(f) ==
    \/ fs.root = "hidden" \/ fs.files[f].place = "hid"
    \/ fs.files[f].dot /\ ~fs.files[f].raw

\* the walk reaches the file
Discovered(f) ==
    /\ fs.root # "missing"
    /\ fs.files[f].place # "locked"
    /\ config.include_hidden \/ ~HiddenUnicodePath(f)

\* nothing in the tree fails
AllReadable ==
    /\ fs.root # "missing"
    /\ \A f \in Files : fs.files[f].fail = "ok" /\ fs.files[f].place # "locked"

\* should enter the size index
Eligible(f) ==
    Discovered(f) /\ fs.files[f].fail # "meta" /\ Size(f) >= config.min_file_size

Indexed(f) ==
    \E s \in DOMAIN files_by_size : \E k \in DOMAIN files_by_size[s] :
        files_by_size[s][k].path = PathOf(f)

Occurrences(g, f) == {k \in DOMAIN g : g[k].path = PathOf(f)}

GroupsWith(gs, f) == {i \in DOMAIN gs : Occurrences(gs[i], f) # {}}

Reported(f) == \E k \in DOMAIN events : events[k].current_file = display(PathOf(f))

Returned == pc = "Done" /\ result.kind = "Ok"


\* ------------------------------------------------------------------------
\* Properties
\* ------------------------------------------------------------------------
\* f and g appear together in exactly one returned group and once in it
TogetherOnce(f, g) ==
    /\ Cardinality(GroupsWith(result.groups, f)) = 1
    /\ GroupsWith(result.groups, g) = GroupsWith(result.groups, f)
    /\ \A i \in GroupsWith(result.groups, f) :
          Cardinality(Occurrences(result.groups[i], f)) = 1

InAtMostOneGroup ==
    \A f \in Files : Cardinality(GroupsWith(result.groups, f)) <= 1

\* C1 as stated: after a scan with the default configuration in which every
\* file is readable, any two discovered files with identical content, of any
\* size from 0 bytes up, appear together in exactly one group, and no file
\* appears in more than one group.
C1_AnySize ==
    (Returned /\ config = DefaultConfig /\ AllReadable) =>
        /\ \A f, g \in Files :
              (f # g /\ Discovered(f) /\ Discovered(g) /\ Content(f) = Content(g))
                  => TogetherOnce(f, g)
        /\ InAtMostOneGroup

\* C1 amended: the same for files of at least min_file_size = 1 byte; empty
\* files are not indexed under the default configuration.
C1_FromMinSize ==
    (Returned /\ config = DefaultConfig /\ AllReadable) =>
        /\ \A f, g \in Files :
              (f # g /\ Discovered(f) /\ Discovered(g) /\ Content(f) = Content(g)
               /\ Size(f) >= DefaultConfig.min_file_size)
                  => TogetherOnce(f, g)
        /\ InAtMostOneGroup

\* files A and B with content X, file C of the same size with content Y: one
\* group, of A and B
C1_Witness ==
    /\ Returned /\ config = DefaultConfig /\ AllReadable
    /\ \E a, b, c \in Files :
          /\ a # b /\ Content(a) = Content(b) /\ Size(a) > 0
          /\ Size(c) = Size(a) /\ Content(c) # Content(a)
          /\ Discovered(a) /\ Discovered(b) /\ Discovered(c)
          /\ Len(result.groups) = 1
          /\ Occurrences(result.groups[1], a) # {}
          /\ Occurrences(result.groups[1], b) # {}
          /\ Occurrences(result.groups[1], c) = {}

\* C2: a file whose content no other discovered file has is in no group that
\* scan_directory returns, also when other files share its size.
C2_UniqueUngrouped ==
    Returned =>
        \A f \in Files :
            (\A g \in Files \ {f} : Discovered(g) => Content(g) # Content(f))
                => GroupsWith(result.groups, f) = {}

\* two files of one size with different content, read in chunks of one byte
C2_Witness ==
    /\ Returned
    /\ config.buffer_size = 1
    /\ \E f, g \in Files :
          /\ f # g /\ Size(f) = Size(g) /\ Content(f) # Content(g)
          /\ Reported(f) /\ Reported(g)
          /\ \A h \in Files \ {f} : Content(h) # Content(f)
          /\ GroupsWith(result.groups, f) = {}

\* C3: for every tree, configuration and pattern of per-file failures, each
\* group in the result has at least 2 members.
C3_AtLeastTwo ==
    /\ \A i \in DOMAIN duplicates : Len(duplicates[i]) >= 2
    /\ \A i \in DOMAIN result.groups : Len(result.groups[i]) >= 2

\* a group is returned from a tree in which some file fails
C3_Witness ==
    /\ Returned
    /\ result.groups # <<>>
    /\ ~AllReadable

\* C4: in every returned group all members carry the same size, the one
\* observed at discovery, and were hashed to the same digest.
C4_SameSizeSameDigest ==
    \A i \in DOMAIN duplicates :
        \A m, n \in DOMAIN duplicates[i] :
            LET a == duplicates[i][m]
                b == duplicates[i][n]
            IN /\ a.size = b.size
               /\ a.size = Size(FileAt(a.path))
               /\ hash_file(a.path, config).ok
               /\ hash_file(a.path, config) = hash_file(b.path, config)
               /\ Content(FileAt(a.path)) = Content(FileAt(b.path))

\* a group of empty files next to an indexed file of another size
C4_Witness ==
    /\ Returned
    /\ \E i \in DOMAIN result.groups : result.groups[i][1].size = 0
    /\ \E f \in Files : Indexed(f) /\ Size(f) > 0

\* successfully hashed files with the content of f
HashedWith(c) ==
    {g \in Files : Eligible(g) /\ fs.files[g].fail = "ok" /\ Content(g) = c}

\* C5: a file whose hash computation fails appears in no emitted group, and
\* when fewer than 2 successfully hashed files with its content remain, no
\* group is emitted for that content.
C5_HashFailureDropped ==
    Returned =>
        \A f \in Files :
            fs.files[f].fail = "hash" =>
                /\ GroupsWith(result.groups, f) = {}
                /\ Cardinality(HashedWith(Content(f))) < 2 =>
                      \A g \in Files :
                          Content(g) = Content(f) => GroupsWith(result.groups, g) = {}

\* two identical files of one bucket, hashing one of them fails: no group
C5_Witness ==
    /\ Returned
    /\ \E f, g \in Files :
          /\ f # g /\ Content(f) = Content(g)
          /\ fs.files[f].fail = "hash" /\ fs.files[g].fail = "ok"
          /\ Reported(f) /\ Reported(g)
          /\ \A h \in Files \ {f, g} : Size(h) # Size(f)
    /\ result.groups = <<>>


\* C6 as stated: when the root directory is missing or cannot be opened,
\* scan_directory aborts with a ScanError and returns no list of groups.
C6_MissingRootFails ==
    fs.root = "missing" => (pc # "Done" /\ result.kind # "Ok")

\* C7: no per-file failure moves the scan to Failed: with an accessible
\* root the scan returns Ok, every file that can be read is indexed and every
\* indexed file of a candidate bucket is hashed and reported.
C7_PerFileFailuresTolerated ==
    fs.root # "missing" =>
        /\ pc # "Failed"
        /\ result.kind # "Err"
        /\ pc # "Idle" => \A f \in Files : Eligible(f) => Indexed(f)
        /\ pc = "Done" =>
              /\ result.kind = "Ok"
              /\ \A f, g \in Files :
                    (f # g /\ Eligible(f) /\ Eligible(g) /\ Size(f) = Size(g))
                        => Reported(f)

\* the metadata of the first file cannot be read, the two files after it are
\* returned as a group
C7_Witness ==
    /\ Returned
    /\ fs.files[1].fail = "meta" /\ Discovered(1)
    /\ Len(result.groups) = 1
    /\ Occurrences(result.groups[1], 2) # {}

EligibleCount == Cardinality({f \in Files : Eligible(f)})

\* C8: a file smaller than min_file_size never enters the size index, is in
\* no group and is not counted in the progress total; a file of exactly
\* min_file_size is indexed.
C8_MinFileSize ==
    pc # "Idle" =>
        /\ \A f \in Files :
              /\ Size(f) < config.min_file_size =>
                    /\ ~Indexed(f)
                    /\ GroupsWith(duplicates, f) = {}
                    /\ GroupsWith(result.groups, f) = {}
              /\ (Size(f) = config.min_file_size /\ Discovered(f)
                  /\ fs.files[f].fail # "meta") => Indexed(f)
        /\ total_files = EligibleCount
        /\ \A k \in DOMAIN events : events[k].total = EligibleCount

\* a pair of identical files below the threshold yields no group, while a
\* file of exactly the threshold is indexed
C8_Witness ==
    /\ Returned
    /\ config.min_file_size > 0
    /\ \E f, g \in Files :
          /\ f # g /\ Content(f) = Content(g)
          /\ Discovered(f) /\ Discovered(g)
          /\ Size(f) < config.min_file_size
    /\ \E h \in Files : Size(h) = config.min_file_size /\ Indexed(h)
    /\ result.groups = <<>>
    /\ total_files = 1

\* C9 as stated: with include_hidden false no file whose name begins with "."
\* or that lies beneath a directory whose name begins with "." is indexed or
\* appears in a group; with include_hidden true such files are indexed like
\* any other.
C9_HiddenFilter ==
    pc # "Idle" =>
        \A f \in Files :
            HiddenPath(f) =>
                IF config.include_hidden
                THEN (fs.root # "missing" /\ fs.files[f].place # "locked"
                      /\ fs.files[f].fail # "meta"
                      /\ Size(f) >= config.min_file_size) => Indexed(f)
                ELSE /\ ~Indexed(f)
                     /\ GroupsWith(duplicates, f) = {}
                     /\ GroupsWith(result.groups, f) = {}

\* C10 as stated: over the progress events of one scan reported with phase
\* Hashing, in the order the callback receives them, current never decreases.
C10_HashingCurrentMonotone ==
    \A i, j \in DOMAIN events :
        (i < j /\ events[i].phase = "Hashing" /\ events[j].phase = "Hashing")
            => events[i].current <= events[j].current

\* in a bucket that is hashed: indexed, with another indexed file of its size
InCandidateBucket(f) ==
    Eligible(f) /\ \E g \in Files \ {f} : Eligible(g) /\ Size(g) = Size(f)

\* the places of the per-file events that name f
EventsOf(f) == {k \in 2..Len(events) : events[k].current_file = display(PathOf(f))}

\* C11: after the discovery-complete event there is exactly one event for
\* each file of a candidate bucket, whether or not its hash succeeds, and none
\* for any other file; the k-th of these events has current = k; every event
\* of the scan carries the same total.
C11_PerFileProgress ==
    /\ \A i, j \in DOMAIN events : events[i].total = events[j].total
    /\ \A k \in DOMAIN events : k >= 2 => events[k].current = k - 1
    /\ \A f \in Files : Cardinality(EventsOf(f)) <= 1
    /\ Returned =>
          \A f \in Files :
              Cardinality(EventsOf(f)) = IF InCandidateBucket(f) THEN 1 ELSE 0

\* a scan is over in which the hash of a reported file failed
C11_Witness ==
    /\ Returned
    /\ Len(events) >= 3
    /\ \E f \in Files :
          /\ fs.files[f].fail = "hash"
          /\ InCandidateBucket(f)
          /\ EventsOf(f) # {}
          /\ \A k \in EventsOf(f) : events[k].current = k - 1 /\ k > 2

\* C12 as stated: exactly one discovery-complete event is emitted, after the
\* walk and before any hashing; its total is the number of files Hashing goes
\* on to process, so the last per-file event of the scan has current = total.
C12_TotalIsHashedCount ==
    /\ pc \in {"Hashing", "Done"} =>
          /\ Len(events) >= 1
          /\ events[1].current_file = <<"Discovery complete">>
          /\ \A k \in DOMAIN events :
                k >= 2 => events[k].current_file # <<"Discovery complete">>
    /\ pc \in {"Idle", "Discovering"} => events = <<>>
    /\ Returned =>
          /\ events[1].total = processed_count
          /\ Len(events) >= 2 => events[Len(events)].current = events[1].total

\* the directories in the order in which the walk visits them
PlaceOrder == <<"root", "sub", "hid", "locked">>

\* the place of f in the order of the walk: by directory, then by file
WalkPosition(f) ==
    LET d == CHOOSE i \in DOMAIN PlaceOrder : PlaceOrder[i] = fs.files[f].place
    IN d * NumFiles + f

\* the member is the record that the discovery made of its own path
OwnRecord(a) ==
    /\ a.modified_time = fs.files[FileAt(a.path)].mtime
    /\ a.is_critical = is_critical_file(a.path)
    /\ hash_file(a.path, config).ok

\* C13: each member of an emitted group carries its own modification time
\* and criticality flag, all members of a group have one digest, and the
\* members are in the order of their discovery, whatever the order in which
\* the parallel hash tasks complete.
C13_ResultsPairedByIndex ==
    /\ \A h \in DOMAIN files_by_hash : \A k \in DOMAIN files_by_hash[h] :
          LET r == files_by_hash[h][k]
          IN /\ r.modified = fs.files[FileAt(r.path)].mtime
             /\ r.is_critical = is_critical_file(r.path)
             /\ hash_file(r.path, config) = [ok |-> TRUE, hash |-> h]
    /\ \A i \in DOMAIN duplicates :
          \A m, n \in DOMAIN duplicates[i] :
              LET a == duplicates[i][m]
                  b == duplicates[i][n]
              IN /\ OwnRecord(a)
                 /\ hash_file(a.path, config).hash = hash_file(b.path, config).hash
                 /\ m < n => WalkPosition(FileAt(a.path)) < WalkPosition(FileAt(b.path))

\* the tasks of a bucket completed in descending order of index, with
\* different outcomes, and collect() has returned the results in the order of
\* the paths, each path with its own result
C13_Witness ==
    /\ pc = "Hashing" /\ bucket.active
    /\ Len(arrival) >= 2
    /\ \A t \in 1..(Len(arrival) - 1) : arrival[t].index > arrival[t + 1].index
    /\ arrival[1].result # arrival[2].result
    /\ Len(hash_results) = Len(arrival)
    /\ zipped = 0
    /\ \A k \in DOMAIN hash_results :
          /\ hash_results[k].path = bucket.paths_with_time[k].path
          /\ hash_results[k].result = hash_file(hash_results[k].path, config)

\* a is before b in the order of modification times, a missing time first
TimeLess(a, b) == (a = None /\ b # None) \/ (a # None /\ b # None /\ a[1] < b[1])

\* the places that ret marks true
Chosen == {k \in 1..Len(ret.val) : ret.val[k]}

\* the places of the files whose time no other file of the argument exceeds
Maximal == {k \in 1..Len(call.arg) :
               \A j \in 1..Len(call.arg) :
                   ~TimeLess(call.arg[k].modified_time, call.arg[j].modified_time)}

\* the places of the files whose time is not after that of any other file
Minimal == {k \in 1..Len(call.arg) :
               \A j \in 1..Len(call.arg) :
                   ~TimeLess(call.arg[j].modified_time, call.arg[k].modified_time)}

SomeTimePresent == \E j \in 1..Len(call.arg) : call.arg[j].modified_time # None

SomeTimeMissing == \E j \in 1..Len(call.arg) : call.arg[j].modified_time = None

\* C14: on a non-empty group KeepNewestStrategy.select returns one flag for
\* each file, exactly one of them true, on a file whose modified_time is
\* maximal when a missing time is smaller than every present one; a file with
\* a missing time is not chosen when some member has a present one.
C14_KeepNewest ==
    (call.fn = "KeepNewest" /\ call.arg # <<>>) =>
        /\ Len(ret.val) = Len(call.arg)
        /\ Cardinality(Chosen) = 1
        /\ Chosen \subseteq Maximal
        /\ SomeTimePresent => \A k \in Chosen : call.arg[k].modified_time # None

\* a group whose first file has the latest time and whose second has none
C14_Witness ==
    /\ call.fn = "KeepNewest"
    /\ Len(call.arg) = MaxGroupLen
    /\ call.arg[1].modified_time = Some(MaxTime)
    /\ call.arg[2].modified_time = None
    /\ Chosen = {1}

\* C15: on a non-empty group KeepOldestStrategy.select returns one flag for
\* each file, exactly one of them true, on a file whose modified_time is
\* minimal under the same order; when some member has a missing time the
\* chosen file has a missing time.
C15_KeepOldest ==
    (call.fn = "KeepOldest" /\ call.arg # <<>>) =>
        /\ Len(ret.val) = Len(call.arg)
        /\ Cardinality(Chosen) = 1
        /\ Chosen \subseteq Minimal
        /\ SomeTimeMissing => \A k \in Chosen : call.arg[k].modified_time = None

\* a group whose first file has the earliest present time and whose second
\* has none: the second is chosen
C15_Witness ==
    /\ call.fn = "KeepOldest"
    /\ Len(call.arg) = MaxGroupLen
    /\ call.arg[1].modified_time = Some(1)
    /\ call.arg[2].modified_time = None
    /\ Chosen = {2}

\* the least and the greatest member of a non-empty set of places
First(S) == CHOOSE k \in S : \A j \in S : k <= j

Last(S) == CHOOSE k \in S : \A j \in S : j <= k

\* C16 as stated: when several members share the extreme time, KeepNewest
\* and KeepOldest both mark the first of them in group order.
C16_FirstOfTied ==
    /\ (call.fn = "KeepNewest" /\ call.arg # <<>>) => Chosen = {First(Maximal)}
    /\ (call.fn = "KeepOldest" /\ call.arg # <<>>) => Chosen = {First(Minimal)}

\* C16 amended: KeepOldest marks the first of the members that share the
\* minimum, KeepNewest marks the last of the members that share the maximum.
C16_FirstOldestLastNewest ==
    /\ (call.fn = "KeepNewest" /\ call.arg # <<>>) => Chosen = {Last(Maximal)}
    /\ (call.fn = "KeepOldest" /\ call.arg # <<>>) => Chosen = {First(Minimal)}

\* KeepNewest on a group whose first and last file share the latest time
C16_Witness ==
    /\ call.fn = "KeepNewest"
    /\ Len(call.arg) = MaxGroupLen
    /\ Maximal = {1, MaxGroupLen}
    /\ Chosen = {MaxGroupLen}

\* some component of the path, the file's own name or the name of a
\* directory above it, is an entry of the list
SensitiveComponent(path) == \E k \in 1..Len(path) : path[k] \in critical_files

\* C18 as stated: for every file path is_critical_file returns true exactly
\* when the file's own name or the name of an ancestor directory on the path
\* is an entry of the list of sensitive names.
C18_AnyComponentSensitive ==
    call.fn = "is_critical_file" => (ret.val <=> SensitiveComponent(call.arg))

\* the file lies in the directory .ssh
UnderSensitiveDir(f) == fs.files[f].place = "hid"

\* C17 as stated: when a file under a sensitive directory is a member of an
\* emitted group, every member of that group has is_critical = true, wherever
\* the other members lie.
C17_WholeGroupCritical ==
    \A i \in DOMAIN duplicates :
        (\E m \in DOMAIN duplicates[i] : UnderSensitiveDir(FileAt(duplicates[i][m].path)))
            => \A n \in DOMAIN duplicates[i] : duplicates[i][n].is_critical

\* C17 amended: is_critical is decided for each member by its own path: a
\* member outside every sensitive directory, with a name that is not
\* sensitive, has is_critical = false also when another member of its group
\* lies under .ssh, and a member under .ssh whose name is valid Unicode has
\* is_critical = true.
C17_OwnPathDecides ==
    \A i \in DOMAIN duplicates : \A m \in DOMAIN duplicates[i] :
        LET a == duplicates[i][m]
            f == FileAt(a.path)
        IN /\ ~UnderSensitiveDir(f) => ~a.is_critical
           /\ (UnderSensitiveDir(f) /\ ~fs.files[f].raw) => a.is_critical

\* a returned group of a file in the root and a file under .ssh: only the
\* second is flagged
C17_Witness ==
    /\ Returned
    /\ \E i \in DOMAIN result.groups :
          \E m, n \in DOMAIN result.groups[i] :
              LET a == result.groups[i][m]
                  b == result.groups[i][n]
              IN /\ fs.files[FileAt(a.path)].place = "root" /\ ~a.is_critical
                 /\ UnderSensitiveDir(FileAt(b.path)) /\ b.is_critical

\* the paths of the files that duplicate_groups lists
ListedPaths ==
    UNION {{state.duplicate_groups[g].files[k].path :
               k \in 1..Len(state.duplicate_groups[g].files)} :
           g \in 1..Len(state.duplicate_groups)}

\* C19 as stated: after a bulk_delete_unchecked outside preview mode in which
\* some deletions failed and others succeeded, every file whose deletion
\* failed is still listed in duplicate_groups and no file whose deletion
\* succeeded is.
C19_FailedStillListed ==
    (op.name = "bulk_delete_unchecked" /\ op.removed # {} /\ op.failed # {}) =>
        /\ op.failed \subseteq ListedPaths
        /\ op.removed \cap ListedPaths = {}

\* C20: in preview mode a step of delete_unchecked or bulk_delete_unchecked
\* removes no file from the disk and changes nothing of the state but
\* status_message: duplicate_groups with its selection arrays and
\* total_size_savings stay as they are.
C20_PreviewChangesOnlyMessage ==
    [][(state.preview_mode /\ op'.name \in {"delete_unchecked", "bulk_delete_unchecked"})
          => /\ disk' = disk
             /\ state' = [state EXCEPT !.status_message = state'.status_message]]_vars

\* a deletion was previewed: the message counts the unchecked files, which
\* are still listed and still exist
C20_Witness ==
    /\ state.preview_mode
    /\ op.name \in {"delete_unchecked", "bulk_delete_unchecked"}
    /\ state.status_message.kind \in {"Would delete", "Would bulk delete"}
    /\ state.status_message.count >= 2
    /\ state.total_size_savings > 0
    /\ \E g \in 1..Len(state.duplicate_groups) :
          /\ Cardinality(Unchecked(state.duplicate_groups[g])) >= 2
          /\ PathsAt(state.duplicate_groups[g], Unchecked(state.duplicate_groups[g]))
                 \subseteq disk

\* ---- C21 ----

UnicodePaths(groups) ==
    \A g \in 1..Len(groups) : \A k \in 1..Len(groups[g].files) :
        \A c \in 1..Len(groups[g].files[k].path) :
            \A i \in 1..Len(groups[g].files[k].path[c]) :
                groups[g].files[k].path[c][i] # Invalid

Groups == state.duplicate_groups

\* the file lists of the groups, in order
FileLists(groups) == [g \in 1..Len(groups) |-> groups[g].files]

\* C22: applying a selection strategy to one group or to all groups, and
\* toggling a keep checkbox, change no FileInfo and neither the set nor the
\* order of groups and members: only the selection arrays and
\* total_size_savings change, and applied to one group they leave the
\* selection array of every other group unchanged.
C22_SelectionFrame ==
    [][/\ (\/ \E strategy \in {"newest", "oldest"} :
                 bulk_apply_selection_strategy(strategy)
           \/ \E strategy \in {"newest", "oldest"}, group_idx \in 1..Len(Groups) :
                 apply_selection_strategy(strategy, group_idx)
           \/ \E group_idx \in 1..Len(Groups), idx \in 1..MaxGroupLen :
                 Toggle(group_idx, idx))
          => /\ FileLists(Groups') = FileLists(Groups)
             /\ state' = [state EXCEPT
                            !.duplicate_groups = state'.duplicate_groups,
                            !.total_size_savings = state'.total_size_savings]
             /\ disk' = disk
       /\ \A group_idx \in 1..Len(Groups) :
             (\/ \E strategy \in {"newest", "oldest"} :
                    apply_selection_strategy(strategy, group_idx)
              \/ \E idx \in 1..MaxGroupLen : Toggle(group_idx, idx))
             => \A other \in 1..Len(Groups) \ {group_idx} :
                    Groups'[other].selected = Groups[other].selected]_vars

\* two groups are listed; the first has been set to keep its newest file
\* only, and the second still has every flag the scan gave it
C22_Witness ==
    /\ Len(Groups) = 2
    /\ Groups[1].selected = <<FALSE, TRUE>>
    /\ Groups[1].selected = KeepNewestStrategy(Groups[1].files)
    /\ Groups[2].selected = <<TRUE, TRUE>>
    /\ state.total_size_savings = 1

\* ---- C23 ----

PhaseOrder == {<<"Idle", "Discovering">>, <<"Discovering", "Hashing">>, <<"Hashing", "Done">>}

\* a file has been hashed, or a bucket is at work
HashingBegun ==
    bucket.active \/ arrival # <<>> \/ hash_results # <<>> \/ processed_count > 0

\* C23: for every finite tree a started scan passes through Discovering and
\* then Hashing and terminates in Done (or Failed); nothing is hashed before
\* the discovery has finished, the index by size does not change once hashing
\* has started, and when the scan ends every candidate bucket has been hashed
\* to completion.
C23_Lifecycle ==
    /\ [][pc' # pc => <<pc, pc'>> \in PhaseOrder]_vars
    /\ [][pc = "Hashing" => files_by_size' = files_by_size /\ total_files' = total_files]_vars
    /\ [](HashingBegun => pc \in {"Hashing", "Done"})
    /\ [](pc = "Done" => /\ potential_duplicates = <<>>
                         /\ ~bucket.active
                         /\ processed_count = Cardinality({f \in Files : InCandidateBucket(f)}))
    /\ <>(pc \in {"Done", "Failed"})

\* a scan has ended after hashing a bucket of three files
C23_Witness ==
    /\ pc = "Done"
    /\ processed_count = 3
    /\ Len(events) = 4

\* ---- C24 ----

\* the paths of the files of a group whose keep flag has the value kept
PathsFlagged(group, kept) ==
    {group.files[k].path :
        k \in {j \in 1..Len(group.files) : j <= Len(group.selected) /\ group.selected[j] = kept}}

PathsFlaggedIn(groups, kept) ==
    UNION {PathsFlagged(groups[g], kept) : g \in 1..Len(groups)}

FlaggedFalse ==
    UNION {{<<g, k>> : k \in {j \in 1..Len(Groups[g].files) :
                                 j <= Len(Groups[g].selected) /\ ~Groups[g].selected[j]}} :
              g \in 1..Len(Groups)}

RECURSIVE TotalSize(_)
TotalSize(S) ==
    IF S = {} THEN 0
    ELSE LET x == CHOOSE x \in S : TRUE
         IN Groups[x[1]].files[x[2]].size + TotalSize(S \ {x})

C26_GroupsWellFormed ==
    /\ \A g \in 1..Len(Groups) :
          /\ Len(Groups[g].selected) = Len(Groups[g].files)
          /\ Len(Groups[g].files) >= 2
    /\ Running

\* ---- C27 ----

\* C27: at most one scan is in flight. scanning is true exactly when
\* result_receiver holds a receiver; a worker thread or an unreceived result
\* exists only while scanning is true; and start_scan changes nothing and
\* starts no thread when scanning is true or selected_dir is empty.
C27_OneScanInFlight ==
    /\ [](state.scanning <=> result_receiver # None)
    /\ []((worker # NoWorker \/ channel # <<>>) => state.scanning)
    /\ [](Len(channel) <= 1)
    /\ [][(start_scan /\ (state.scanning \/ state.selected_dir = ""))
             => UNCHANGED <<state, result_receiver, worker, channel, scan_progress, disk>>]_vars

\* a scan is in flight: its worker has returned from scan_directory and has
\* not sent the result yet, and the directory field has been emptied
C27_Witness ==
    /\ state.scanning
    /\ result_receiver = Some("rx")
    /\ worker.pc = "cleared"
    /\ channel = <<>>
    /\ state.selected_dir = ""

\* ---- C28 ----

WorkerOrder ==
    {<<"none", "scanning">>, <<"scanning", "returned">>, <<"returned", "cleared">>,
     <<"cleared", "none">>, <<"scanning", "scanning">>}

\* C28: the worker writes progress events into the shared slot only while
\* scan_directory runs, then clears the slot, then sends the result, in that
\* order; so in every interleaving with the UI thread, once update has
\* received the result the slot is None, and it stays None until the next
\* scan starts.
C28_SlotClearedBeforeSend ==
    /\ [][worker' # worker => <<worker.pc, worker'.pc>> \in WorkerOrder]_vars
    /\ [][(scan_progress' # scan_progress /\ scan_progress' # None)
             => worker.pc = "scanning" /\ worker'.pc = "scanning"]_vars
    /\ [][Len(channel') > Len(channel)
             => worker.pc = "cleared" /\ scan_progress = None /\ scan_progress' = None]_vars
    /\ [](channel # <<>> => scan_progress = None)
    /\ [](~state.scanning => scan_progress = None)

\* update has received the groups of a scan and the slot is empty
C28_Witness ==
    /\ ~state.scanning
    /\ state.status_message.kind = "Found"
    /\ result_receiver = None
    /\ worker = NoWorker
    /\ scan_progress = None

\* ---- C29 ----

====
